---------------------------- MODULE Spec2Model ----------------------------
(***************************************************************************)
(* HTTP transport router of playwright-mcp (src/src/tools/files.ts,        *)
(* second half: start, handleSSE, handleHealth, handleStreamable,          *)
(* startHttpTransport).                                                     *)
(*                                                                         *)
(* One listener, two session registries (Map objects), transports created  *)
(* per session.  Every handler is an async function run on a single event  *)
(* loop: the code between two awaits is one atomic step, and the awaits    *)
(* on mcpServer.connect are the points where other requests and close      *)
(* events interleave.                                                      *)
(***************************************************************************)
EXTENDS Integers, Sequences, FiniteSets, TLC

(* ---------------------------- bounds ----------------------------------- *)
MaxTransports == 2      \* transports created in one run
NumClientIds == 1       \* distinct session ids a client makes up itself
MaxPatchedTransports == 1   \* transports created on the patched server
MaxKeys == 2            \* keys in one browser_file_upload call
MaxCalls == 2           \* browser_file_upload calls on the tab
MaxClock == 1           \* milliseconds the clock can advance

(* ---------------------------- values ----------------------------------- *)
Absent == 0             \* undefined / null
Empty == -1             \* the empty string ''
NoTransport == 0

Methods == {"GET", "POST", "DELETE"}

\* req.url values, as sequences of characters (query string kept apart)
UrlHealth == <<"/", "h", "e", "a", "l", "t", "h">>
UrlHealthz == <<"/", "h", "e", "a", "l", "t", "h", "z">>
UrlSse == <<"/", "s", "s", "e">>
UrlSsex == <<"/", "s", "s", "e", "x">>
UrlMcp == <<"/", "m", "c", "p">>
UrlBadPort == <<"*", ":", "x">>
Urls == {UrlHealth, UrlHealthz, UrlSse, UrlSsex, UrlMcp, UrlBadPort}

\* the requests a client sends: every method on the documented endpoints
\* and on the unparseable one, a GET on the look-alike paths
Requests ==
    [method : Methods, url : {UrlHealth, UrlSse, UrlMcp}]
        \cup [method : {"GET"}, url : {UrlHealthz, UrlSsex, UrlBadPort}]

Digits == {"0", "1", "2", "3", "4", "5", "6", "7", "8", "9"}

\* where the path of `http://localhost${req.url}` begins: what req.url has
\* before its first "/" is read as more of the host and port
FirstSlash(u) ==
    IF Len(u) > 0 /\ u[1] = "/" THEN 1
    ELSE IF \E i \in 1..Len(u) : u[i] = "/"
      THEN CHOOSE i \in 1..Len(u) :
               u[i] = "/" /\ \A j \in 1..(i - 1) : u[j] # "/"
      ELSE Len(u) + 1

\* new URL(`http://localhost${req.url}`) throws on an invalid port
UrlParses(u) ==
    ~\E i \in 1..(FirstSlash(u) - 1) :
        u[i] = ":" /\ \E j \in (i + 1)..(FirstSlash(u) - 1) : u[j] \notin Digits

\* url.pathname of a URL that parsed
Pathname(u) ==
    IF FirstSlash(u) <= Len(u) THEN SubSeq(u, FirstSlash(u), Len(u))
                              ELSE <<"/">>

\* String.prototype.startsWith
StartsWith(s, p) == Len(s) >= Len(p) /\ SubSeq(s, 1, Len(p)) = p

\* JavaScript truthiness of a string | undefined | null
Truthy(s) == s # Absent /\ s # Empty

(* ---------------------------- Map objects ------------------------------ *)
EmptyMap == [k \in {} |-> NoTransport]
MapHas(m, k) == k \in DOMAIN m
MapGet(m, k) == IF k \in DOMAIN m THEN m[k] ELSE NoTransport
MapSet(m, k, v) == [x \in DOMAIN m \cup {k} |-> IF x = k THEN v ELSE m[x]]
MapDelete(m, k) == [x \in DOMAIN m \ {k} |-> m[x]]
MapSize(m) == Cardinality(DOMAIN m)

(* ---------------------------- state ------------------------------------ *)
VARIABLES
    sseSessions,          \* Map<string, SSEServerTransport>
    streamableSessions,   \* Map<string, StreamableHTTPServerTransport>
    transports,           \* every transport object created, by identity
    uuidCount,            \* number of random UUIDs drawn so far
    listening,            \* the process is alive and the listener accepts
    last,                 \* what the most recent handler step did
    reqIn,                \* the request the listeners were last called with
    res,                  \* the http.ServerResponse of that request
    resHolder,            \* the transport that request was handed to
    upload,               \* the locals of the browser_file_upload invocation
    disk,                 \* the files in os.tmpdir(), by path
    tempFilePaths,        \* tab._tempFilePaths || []
    now                   \* the system clock Date.now() reads

routerVars == <<sseSessions, streamableSessions, transports, uuidCount,
                listening, last>>
patchVars == <<reqIn, res, resHolder>>
uploadVars == <<upload, disk, tempFilePaths, now>>
\* what the router's own steps leave alone
elsewhere == <<patchVars, uploadVars>>
vars == <<routerVars, patchVars, uploadVars>>

TransportIds == 1..Len(transports)

\* crypto.randomUUID(): a value never produced or seen before
RandomUUID == NumClientIds + uuidCount + 1

\* ids a client can put in a request: the ones it makes up and the ones the
\* server has handed out (a legacy id goes out on the event stream while the
\* connect is under way, a generated streamable id with the response to
\* the initialization, once the callback has returned)
KnownIds ==
    (1..NumClientIds) \cup
    {transports[t].sessionId :
        t \in {x \in TransportIds :
                  \/ transports[x].kind = "sse"
                  \/ /\ transports[x].kind = "streamable"
                     /\ transports[x].connect = "ok"}}

\* The observation of one handler step: the step, the request fields the
\* code of that step reads (method, pathname, session id), the status it
\* sets, and the transport it creates or hands the request to.
\* allow is the Allow header and counts the sessions object of the health
\* body (sse, streamable, total), where the step writes them.
NoEvent ==
    [ev |-> "none", method |-> "", path |-> <<>>, sid |-> Absent,
     status |-> 0, to |-> NoTransport, allow |-> "", counts |-> <<>>]

Event(ev, method, path, sid, status, to) ==
    [ev |-> ev, method |-> method, path |-> path, sid |-> sid,
     status |-> status, to |-> to, allow |-> "", counts |-> <<>>]

(* ---------------------------- http.ServerResponse ---------------------- *)
\* no request has reached the listeners yet
NoRequest == [method |-> "", url |-> <<>>]

\* The response object a 'request' event carries: the statusCode property,
\* the status line and the body chunks that have gone to the client, whether
\* the response has been ended, and which of its methods have been replaced
\* by functions that do nothing.
NewRes ==
    [statusCode |-> 200, head |-> 0, body |-> <<>>, ended |-> FALSE,
     stubs |-> {}, threw |-> FALSE]

\* res.statusCode = code: a plain property, assignable at any time
ResStatusCode(r, code) == [r EXCEPT !.statusCode = code]

\* res.setHeader(name, value): throws once the head has been sent
ResSetHeader(r) ==
    IF "setHeader" \in r.stubs THEN r
    ELSE IF r.head # 0 THEN [r EXCEPT !.threw = TRUE]
    ELSE r

\* res.writeHead(code): throws once the head has been sent
ResWriteHead(r, code) ==
    IF "writeHead" \in r.stubs THEN r
    ELSE IF r.head # 0 THEN [r EXCEPT !.threw = TRUE]
    ELSE [r EXCEPT !.statusCode = code, !.head = code]

\* res.write(chunk): sends the head if it has not gone yet, then the chunk;
\* after end() nothing is written
ResWrite(r, chunk) ==
    IF "write" \in r.stubs \/ r.ended THEN r
    ELSE [r EXCEPT !.head = IF r.head = 0 THEN r.statusCode ELSE r.head,
                   !.body = Append(r.body, chunk)]

\* res.end(chunk): the last chunk; a second end() changes nothing
ResEnd(r, chunk) ==
    IF "end" \in r.stubs \/ r.ended THEN r
    ELSE [r EXCEPT !.head = IF r.head = 0 THEN r.statusCode ELSE r.head,
                   !.body = Append(r.body, chunk),
                   !.ended = TRUE]

\* what the client has received of a response
Received(r) == [status |-> r.head, body |-> r.body, complete |-> r.ended]

(* ---------------------------- the tab and the temp directory ----------- *)
\* no invocation of the tool is under way
\* (pc is the handler's position, failed the step that threw, error what the
\* handler threw, before the tab's list when the handler was entered, calls
\* the number of invocations so far)
NoUpload ==
    [pc |-> "idle", s3Keys |-> <<>>, localPaths |-> <<>>, failed |-> "",
     error |-> "", before |-> <<>>, calls |-> 0]

\* an empty directory
NoFiles == [p \in {} |-> <<>>]

\* the process before start() is called
Init ==
    /\ sseSessions = EmptyMap
    /\ streamableSessions = EmptyMap
    /\ transports = <<>>
    /\ uuidCount = 0
    /\ listening = FALSE
    /\ last = NoEvent
    /\ reqIn = NoRequest
    /\ res = NewRes
    /\ resHolder = NoTransport
    /\ upload = NoUpload
    /\ disk = NoFiles
    /\ tempFilePaths = <<>>
    /\ now = 0

\* the request listener accepts one more request
Accept == listening

(* ---------------------------- router ----------------------------------- *)
\* the router with the legacy test written as equality instead of a prefix
Route_ExactSse(pathname) ==
    IF pathname = UrlHealth THEN "health"
    ELSE IF pathname = UrlSse THEN "sse"
    ELSE "streamable"

\* startHttpTransport's request listener: which handler a pathname gets
Route(pathname) ==
    IF pathname = UrlHealth THEN "health"
    ELSE IF StartsWith(pathname, UrlSse) THEN "sse"
    ELSE "streamable"

\* An async listener that rejects leaves an unhandled rejection: whether the
\* process survives it depends on the runtime's unhandled-rejections mode
\* and on handlers installed elsewhere, so both outcomes are possible.
Rejected == listening' \in BOOLEAN

\* new URL(...) throws inside the async listener: nothing is dispatched
BadUrlRequest ==
    /\ UNCHANGED elsewhere
    /\ \E r \in Requests :
        /\ Accept
        /\ ~UrlParses(r.url)
        /\ Rejected
        /\ last' = Event("reject_url", "", r.url, Absent, 0, NoTransport)
        /\ UNCHANGED <<sseSessions, streamableSessions, transports, uuidCount>>

(* ---------------------------- handleHealth ----------------------------- *)
\* a health handler that prunes the registries while it counts them
handleHealth_Prunes(m, u) ==
    /\ last' = Event("health", m, Pathname(u), Absent,
                     IF m # "GET" THEN 405 ELSE 200, NoTransport)
    /\ sseSessions' = EmptyMap
    /\ UNCHANGED <<streamableSessions, transports, uuidCount, listening>>

\* a health handler whose 405 carries no Allow header
handleHealth_NoAllow(m, u) ==
    /\ last' =
         IF m # "GET"
           THEN Event("health", m, Pathname(u), Absent, 405, NoTransport)
           ELSE [Event("health", m, Pathname(u), Absent, 200, NoTransport)
                    EXCEPT !.counts =
                        <<MapSize(sseSessions), MapSize(streamableSessions),
                          MapSize(sseSessions) + MapSize(streamableSessions)>>]
    /\ UNCHANGED <<sseSessions, streamableSessions, transports, uuidCount,
                   listening>>

handleHealth(m, u) ==
    /\ last' =
         IF m # "GET"
           THEN [Event("health", m, Pathname(u), Absent, 405, NoTransport)
                    EXCEPT !.allow = "GET"]
           ELSE [Event("health", m, Pathname(u), Absent, 200, NoTransport)
                    EXCEPT !.counts =
                        <<MapSize(sseSessions), MapSize(streamableSessions),
                          MapSize(sseSessions) + MapSize(streamableSessions)>>]
    /\ UNCHANGED <<sseSessions, streamableSessions, transports, uuidCount,
                   listening>>

HealthRequest ==
    /\ UNCHANGED elsewhere
    /\ \E r \in Requests :
        /\ Accept
        /\ UrlParses(r.url)
        /\ Route(Pathname(r.url)) = "health"
        /\ handleHealth(r.method, r.url)

(* ---------------------------- transports ------------------------------ *)
\* a transport object and what the handlers have done to it
Transport(kind, via, sessionId, init, connect, connects, flag, hook) ==
    [kind |-> kind, via |-> via, sessionId |-> sessionId,
     initialized |-> init, connect |-> connect, connects |-> connects,
     stateless |-> flag, open |-> TRUE, hook |-> hook]

\* mcpServer.connect(serverBackendFactory, transport, flag) is called
Connecting(tr, flag) ==
    [tr EXCEPT !.connect = "pending", !.connects = @ + 1, !.stateless = flag]

CanCreate == Len(transports) < MaxTransports
NewT == Len(transports) + 1

(* ---------------------------- start ------------------------------------ *)
\* startStdioTransport up to the await: connect on a stdio transport
startStdioTransport ==
    /\ transports' =
           Append(transports,
                  Connecting(Transport("stdio", "stdio", Absent, FALSE, "none",
                                       0, FALSE, FALSE), FALSE))
    /\ last' = Event("start_stdio", "", <<>>, Absent, 0, NewT)
    /\ UNCHANGED <<sseSessions, streamableSessions, uuidCount, listening>>

\* startHttpTransport: two empty maps, the request listener installed
startHttpTransport ==
    /\ listening' = TRUE
    /\ sseSessions' = EmptyMap
    /\ streamableSessions' = EmptyMap
    /\ last' = Event("start_http", "", <<>>, Absent, 0, NoTransport)
    /\ UNCHANGED <<transports, uuidCount>>

\* start(serverBackendFactory, options), called once
start(port) ==
    /\ last.ev = "none"
    /\ IF port # Absent THEN startHttpTransport ELSE startStdioTransport

Start ==
    /\ UNCHANGED elsewhere
    /\ \E port \in {Absent, 8931} : start(port)

\* the connect of the stdio transport resolves or rejects
StdioConnectSettled ==
    /\ UNCHANGED elsewhere
    /\ \E t \in TransportIds, outcome \in {"ok", "failed"} :
        /\ transports[t].via = "stdio"
        /\ transports[t].connect = "pending"
        /\ transports' = [transports EXCEPT ![t].connect = outcome]
        /\ last' = Event("stdio_settled", "", <<>>, Absent, 0, t)
        /\ UNCHANGED <<sseSessions, streamableSessions, uuidCount, listening>>

(* ---------------------------- handleSSE -------------------------------- *)
\* the POST branch without its missing-parameter check
SSEPost_NoMissingCheck(m, u, q) ==
    /\ m = "POST"
    /\ LET transport == MapGet(sseSessions, q)
       IN  last' = IF transport = NoTransport
                     THEN Event("sse_post", m, Pathname(u), q, 404, NoTransport)
                   ELSE Event("sse_post", m, Pathname(u), q, 0, transport)
    /\ UNCHANGED <<sseSessions, streamableSessions, transports, uuidCount,
                   listening>>

\* the POST branch forwarding without looking at what the lookup returned
SSEPost_NoLookupCheck(m, u, q) ==
    /\ m = "POST"
    /\ LET transport == MapGet(sseSessions, q)
       IN  last' = IF ~Truthy(q)
                     THEN Event("sse_post", m, Pathname(u), q, 400, NoTransport)
                   ELSE Event("sse_post", m, Pathname(u), q, 0, transport)
    /\ UNCHANGED <<sseSessions, streamableSessions, transports, uuidCount,
                   listening>>

\* the POST branch falling back to the other map when its own has no entry
SSEPost_AnyMap(m, u, q) ==
    /\ m = "POST"
    /\ LET transport == IF MapHas(sseSessions, q)
                          THEN MapGet(sseSessions, q)
                          ELSE MapGet(streamableSessions, q)
       IN  last' = IF ~Truthy(q)
                     THEN Event("sse_post", m, Pathname(u), q, 400, NoTransport)
                   ELSE IF transport = NoTransport
                     THEN Event("sse_post", m, Pathname(u), q, 404, NoTransport)
                   ELSE Event("sse_post", m, Pathname(u), q, 0, transport)
    /\ UNCHANGED <<sseSessions, streamableSessions, transports, uuidCount,
                   listening>>

\* POST branch: deliver a message to the session named by ?sessionId=
SSEPost(m, u, q) ==
    /\ m = "POST"
    /\ LET transport == MapGet(sseSessions, q)
       IN  last' = IF ~Truthy(q)
                     THEN Event("sse_post", m, Pathname(u), q, 400, NoTransport)
                   ELSE IF transport = NoTransport
                     THEN Event("sse_post", m, Pathname(u), q, 404, NoTransport)
                   ELSE Event("sse_post", m, Pathname(u), q, 0, transport)
    /\ UNCHANGED <<sseSessions, streamableSessions, transports, uuidCount,
                   listening>>

\* the GET branch with a session id that is the same for every transport
SSEGet_SameId(m, u) ==
    /\ m = "GET"
    /\ CanCreate
    /\ LET sessionId == NumClientIds + 1
           transport == Connecting(Transport("sse", "get", sessionId, FALSE,
                                             "none", 0, FALSE, FALSE), FALSE)
       IN  /\ transports' = Append(transports, transport)
           /\ sseSessions' = MapSet(sseSessions, sessionId, NewT)
           /\ last' = Event("sse_get", m, Pathname(u), sessionId, 0, NewT)
    /\ uuidCount' = uuidCount + 1
    /\ UNCHANGED <<streamableSessions, listening>>

\* GET branch up to the await: new transport, registered, connect started
SSEGet(m, u) ==
    /\ m = "GET"
    /\ CanCreate
    /\ LET sessionId == RandomUUID
           transport == Connecting(Transport("sse", "get", sessionId, FALSE,
                                             "none", 0, FALSE, FALSE), FALSE)
       IN  /\ transports' = Append(transports, transport)
           /\ sseSessions' = MapSet(sseSessions, sessionId, NewT)
           /\ last' = Event("sse_get", m, Pathname(u), sessionId, 0, NewT)
    /\ uuidCount' = uuidCount + 1
    /\ UNCHANGED <<streamableSessions, listening>>

\* any other method
SSEMethodNotAllowed(m, u) ==
    /\ m \notin {"POST", "GET"}
    /\ last' = Event("sse_other", m, Pathname(u), Absent, 405, NoTransport)
    /\ UNCHANGED <<sseSessions, streamableSessions, transports, uuidCount,
                   listening>>

handleSSE(m, u, q) ==
    \/ SSEPost(m, u, q)
    \/ SSEGet(m, u)
    \/ SSEMethodNotAllowed(m, u)

SSERequest ==
    /\ UNCHANGED elsewhere
    /\ \E r \in Requests :
        /\ Accept
        /\ UrlParses(r.url)
        /\ Route(Pathname(r.url)) = "sse"
        /\ \E q \in IF r.method = "POST" THEN {Absent, Empty} \cup KnownIds
                                        ELSE {Absent} :
               handleSSE(r.method, r.url, q)

\* GET branch after the await: connect resolved, close listener attached
SSEConnectDone ==
    /\ UNCHANGED elsewhere
    /\ \E t \in TransportIds :
        /\ listening
        /\ transports[t].via = "get"
        /\ transports[t].connect = "pending"
        /\ transports' = [transports EXCEPT ![t].connect = "ok",
                                            ![t].hook = TRUE]
        /\ last' = Event("sse_connected", "", <<>>, transports[t].sessionId,
                         200, t)
        /\ UNCHANGED <<sseSessions, streamableSessions, uuidCount, listening>>

\* GET branch: connect rejected, the handler rejects before res.on('close')
SSEConnectFail ==
    /\ UNCHANGED elsewhere
    /\ \E t \in TransportIds :
        /\ listening
        /\ transports[t].via = "get"
        /\ transports[t].connect = "pending"
        /\ transports' = [transports EXCEPT ![t].connect = "failed"]
        /\ Rejected
        /\ last' = Event("sse_connect_failed", "", <<>>,
                         transports[t].sessionId, 0, t)
        /\ UNCHANGED <<sseSessions, streamableSessions, uuidCount>>

\* the response's socket closes: 'close' is emitted to the listeners attached
ResClose ==
    /\ UNCHANGED elsewhere
    /\ \E t \in TransportIds :
        /\ listening
        /\ transports[t].kind = "sse"
        /\ transports[t].open
        /\ transports' = [transports EXCEPT ![t].open = FALSE]
        /\ sseSessions' = IF transports[t].hook
                            THEN MapDelete(sseSessions, transports[t].sessionId)
                            ELSE sseSessions
        /\ last' = Event("res_close", "", <<>>, transports[t].sessionId, 0, t)
        /\ UNCHANGED <<streamableSessions, uuidCount, listening>>

(* ---------------------------- handleStreamable ------------------------- *)
\* a pass-through that connects the engine again on every request
StreamablePassThrough_Reconnects(m, u, h) ==
    /\ Truthy(h)
    /\ MapGet(streamableSessions, h) # NoTransport
    /\ transports' =
           [transports EXCEPT ![MapGet(streamableSessions, h)].connects = @ + 1]
    /\ last' = Event("passthrough", "", Pathname(u), h, 0,
                     MapGet(streamableSessions, h))
    /\ UNCHANGED <<sseSessions, streamableSessions, uuidCount, listening>>

\* header names a registered session: forward to it
StreamablePassThrough(m, u, h) ==
    /\ Truthy(h)
    /\ MapGet(streamableSessions, h) # NoTransport
    /\ last' = Event("passthrough", "", Pathname(u), h, 0,
                     MapGet(streamableSessions, h))
    /\ UNCHANGED <<sseSessions, streamableSessions, transports, uuidCount,
                   listening>>

\* eager creation storing the transport before the await on connect
StreamableEagerStart_StoresFirst(m, u, h) ==
    /\ Truthy(h)
    /\ MapGet(streamableSessions, h) = NoTransport
    /\ CanCreate
    /\ LET localTransport ==
               Connecting(Transport("streamable", "eager", h, TRUE, "none",
                                    0, FALSE, TRUE), TRUE)
       IN  transports' = Append(transports, localTransport)
    /\ streamableSessions' = MapSet(streamableSessions, h, NewT)
    /\ last' = Event("eager_start", "", Pathname(u), h, 0, NewT)
    /\ UNCHANGED <<sseSessions, uuidCount, listening>>

\* eager creation passing false as the third argument of connect
StreamableEagerStart_NotStateless(m, u, h) ==
    /\ Truthy(h)
    /\ MapGet(streamableSessions, h) = NoTransport
    /\ CanCreate
    /\ LET localTransport ==
               Connecting(Transport("streamable", "eager", h, TRUE, "none",
                                    0, FALSE, TRUE), FALSE)
       IN  transports' = Append(transports, localTransport)
    /\ last' = Event("eager_start", "", Pathname(u), h, 0, NewT)
    /\ UNCHANGED <<sseSessions, streamableSessions, uuidCount, listening>>

\* header names no registered session: eager creation up to the await
StreamableEagerStart(m, u, h) ==
    /\ Truthy(h)
    /\ MapGet(streamableSessions, h) = NoTransport
    /\ CanCreate
    /\ LET localTransport ==
               Connecting(Transport("streamable", "eager", h, TRUE, "none",
                                    0, FALSE, TRUE), TRUE)
       IN  transports' = Append(transports, localTransport)
    /\ last' = Event("eager_start", "", Pathname(u), h, 0, NewT)
    /\ UNCHANGED <<sseSessions, streamableSessions, uuidCount, listening>>

\* the no-header branch without its test of the method
StreamableInitStart_AnyMethod(m, u, h) ==
    /\ ~Truthy(h)
    /\ CanCreate
    /\ transports' = Append(transports,
                            Transport("streamable", "init", Absent, FALSE,
                                      "none", 0, FALSE, TRUE))
    /\ last' = Event("init_post", m, Pathname(u), h, 0, NewT)
    /\ UNCHANGED <<sseSessions, streamableSessions, uuidCount, listening>>

\* no header, POST: fresh transport, request handed to it
StreamableInitStart(m, u, h) ==
    /\ ~Truthy(h)
    /\ m = "POST"
    /\ CanCreate
    /\ transports' = Append(transports,
                            Transport("streamable", "init", Absent, FALSE,
                                      "none", 0, FALSE, TRUE))
    /\ last' = Event("init_post", m, Pathname(u), h, 0, NewT)
    /\ UNCHANGED <<sseSessions, streamableSessions, uuidCount, listening>>

\* no header, any other method
StreamableInvalid(m, u, h) ==
    /\ ~Truthy(h)
    /\ m # "POST"
    /\ last' = Event("invalid", m, Pathname(u), h, 400, NoTransport)
    /\ UNCHANGED <<sseSessions, streamableSessions, transports, uuidCount,
                   listening>>

handleStreamable(m, u, h) ==
    \/ StreamablePassThrough(m, u, h)
    \/ StreamableEagerStart(m, u, h)
    \/ StreamableInitStart(m, u, h)
    \/ StreamableInvalid(m, u, h)

StreamableRequest ==
    /\ UNCHANGED elsewhere
    /\ \E r \in Requests :
        /\ Accept
        /\ UrlParses(r.url)
        /\ Route(Pathname(r.url)) = "streamable"
        /\ \E h \in {Absent, Empty} \cup KnownIds :
               handleStreamable(r.method, r.url, h)

\* eager creation after the await: store the transport, forward the request
EagerConnectDone ==
    /\ UNCHANGED elsewhere
    /\ \E t \in TransportIds :
        /\ listening
        /\ transports[t].via = "eager"
        /\ transports[t].connect = "pending"
        /\ transports' = [transports EXCEPT ![t].connect = "ok"]
        /\ streamableSessions' =
               MapSet(streamableSessions, transports[t].sessionId, t)
        /\ last' = Event("eager_forward", "", <<>>, transports[t].sessionId,
                         0, t)
        /\ UNCHANGED <<sseSessions, uuidCount, listening>>

\* eager creation: connect rejected, nothing is stored
EagerConnectFail ==
    /\ UNCHANGED elsewhere
    /\ \E t \in TransportIds :
        /\ listening
        /\ transports[t].via = "eager"
        /\ transports[t].connect = "pending"
        /\ transports' = [transports EXCEPT ![t].connect = "failed"]
        /\ Rejected
        /\ last' = Event("eager_connect_failed", "", <<>>,
                         transports[t].sessionId, 0, t)
        /\ UNCHANGED <<sseSessions, streamableSessions, uuidCount>>

\* the callback with its two statements swapped: sessions.set before the
\* await on connect
OnSessionInitialized_StoresFirst ==
    /\ UNCHANGED elsewhere
    /\ \E t \in TransportIds :
        /\ listening
        /\ transports[t].via = "init"
        /\ transports[t].connect = "none"
        /\ transports[t].open
        /\ transports' =
               [transports EXCEPT
                   ![t] = Connecting([@ EXCEPT !.sessionId = RandomUUID,
                                               !.initialized = TRUE], TRUE)]
        /\ uuidCount' = uuidCount + 1
        /\ streamableSessions' = MapSet(streamableSessions, RandomUUID, t)
        /\ last' = Event("init_callback", "", <<>>, RandomUUID, 0, t)
        /\ UNCHANGED <<sseSessions, listening>>

\* the transport runs the no-header callback: id generated, connect started
OnSessionInitialized ==
    /\ UNCHANGED elsewhere
    /\ \E t \in TransportIds :
        /\ listening
        /\ transports[t].via = "init"
        /\ transports[t].connect = "none"
        /\ transports[t].open
        /\ transports' =
               [transports EXCEPT
                   ![t] = Connecting([@ EXCEPT !.sessionId = RandomUUID,
                                               !.initialized = TRUE], TRUE)]
        /\ uuidCount' = uuidCount + 1
        /\ last' = Event("init_callback", "", <<>>, RandomUUID, 0, t)
        /\ UNCHANGED <<sseSessions, streamableSessions, listening>>

\* no-header callback after the await: the session is stored
InitConnectDone ==
    /\ UNCHANGED elsewhere
    /\ \E t \in TransportIds :
        /\ listening
        /\ transports[t].via = "init"
        /\ transports[t].connect = "pending"
        /\ transports' = [transports EXCEPT ![t].connect = "ok"]
        /\ streamableSessions' =
               MapSet(streamableSessions, transports[t].sessionId, t)
        /\ last' = Event("init_stored", "", <<>>, transports[t].sessionId,
                         200, t)
        /\ UNCHANGED <<sseSessions, uuidCount, listening>>

\* no-header callback: connect rejected, nothing is stored
InitConnectFail ==
    /\ UNCHANGED elsewhere
    /\ \E t \in TransportIds :
        /\ listening
        /\ transports[t].via = "init"
        /\ transports[t].connect = "pending"
        /\ transports' = [transports EXCEPT ![t].connect = "failed"]
        /\ Rejected
        /\ last' = Event("init_connect_failed", "", <<>>,
                         transports[t].sessionId, 0, t)
        /\ UNCHANGED <<sseSessions, streamableSessions, uuidCount>>

\* transport.onclose of a streamable transport (both paths install the same
\* body): delete the registry entry of the transport's session id
TransportClose ==
    /\ UNCHANGED elsewhere
    /\ \E t \in TransportIds :
        /\ listening
        /\ transports[t].kind = "streamable"
        /\ transports[t].open
        /\ transports[t].connect \in {"none", "ok"}
        /\ transports' = [transports EXCEPT ![t].open = FALSE]
        /\ streamableSessions' =
               IF ~Truthy(transports[t].sessionId)
                 THEN streamableSessions
                 ELSE MapDelete(streamableSessions, transports[t].sessionId)
        /\ last' = Event("transport_close", "", <<>>,
                         transports[t].sessionId, 0, t)
        /\ UNCHANGED <<sseSessions, uuidCount, listening>>

(* ---------------------------- specification ---------------------------- *)
Next ==
    \/ Start
    \/ StdioConnectSettled
    \/ BadUrlRequest
    \/ HealthRequest
    \/ SSERequest
    \/ SSEConnectDone
    \/ SSEConnectFail
    \/ ResClose
    \/ StreamableRequest
    \/ EagerConnectDone
    \/ EagerConnectFail
    \/ OnSessionInitialized
    \/ InitConnectDone
    \/ InitConnectFail
    \/ TransportClose

Spec == Init /\ [][Next]_vars

(* ---------------------------- healthcheck patch ------------------------ *)
UrlHealthcheck ==
    <<"/", "h", "e", "a", "l", "t", "h", "c", "h", "e", "c", "k">>
UrlNone == <<>>

\* requests sent to the patched server
PatchedRequests ==
    [method : {"GET", "POST"}, url : {UrlHealth, UrlHealthcheck, UrlSse, UrlMcp}]
      \cup [method : {"GET"}, url : {UrlNone, UrlBadPort}]

StubbedMethods == {"write", "end", "writeHead", "setHeader"}

\* the patch answering without ending the response or replacing its methods
addHealthcheckHandler_NoEnd(r, rs) ==
    IF Len(r.url) = 0 THEN rs
    ELSE IF ~UrlParses(r.url) THEN rs
    ELSE IF Pathname(r.url) \in {UrlHealth, UrlHealthcheck} /\ r.method = "GET"
      THEN ResSetHeader(ResStatusCode(rs, 200))
    ELSE rs

\* the listener addHealthcheckHandler prepends: what it does to the response
\* rs of request r
addHealthcheckHandler(r, rs) ==
    IF Len(r.url) = 0 THEN rs
    ELSE IF ~UrlParses(r.url) THEN rs
    ELSE IF Pathname(r.url) \in {UrlHealth, UrlHealthcheck} /\ r.method = "GET"
      THEN [ResEnd(ResSetHeader(ResStatusCode(rs, 200)), "patch")
               EXCEPT !.stubs = StubbedMethods]
    ELSE rs

\* what the router's handlers themselves do to the response in the step
\* observed as e: the health body, or a status with a text
RouterWrites(rs, e) ==
    IF e.ev = "health"
      THEN ResEnd(ResSetHeader(ResStatusCode(rs, e.status)),
                  IF e.status = 200 THEN "health" ELSE "text")
    ELSE IF e.ev \in {"sse_post", "sse_other", "invalid"} /\ e.status # 0
      THEN ResEnd(ResStatusCode(rs, e.status), "text")
    ELSE rs

\* the transport the step observed as e gives the response to, now or after
\* its await
Holder(e) ==
    IF e.ev \in {"sse_post", "sse_get", "passthrough", "eager_start",
                 "init_post"}
      THEN e.to
      ELSE NoTransport

\* 'request' is emitted for r: the prepended listener runs, then the
\* router's listener up to its first await
Emitted(r) ==
    /\ Len(transports') <= MaxPatchedTransports
    /\ reqIn' = r
    /\ res' = RouterWrites(addHealthcheckHandler(r, NewRes), last')
    /\ resHolder' = Holder(last')
    /\ UNCHANGED uploadVars

PatchedBadUrlRequest ==
    \E r \in PatchedRequests :
        /\ Accept
        /\ ~UrlParses(r.url)
        /\ Rejected
        /\ last' = Event("reject_url", "", r.url, Absent, 0, NoTransport)
        /\ UNCHANGED <<sseSessions, streamableSessions, transports, uuidCount>>
        /\ Emitted(r)

PatchedHealthRequest ==
    \E r \in PatchedRequests :
        /\ Accept
        /\ UrlParses(r.url)
        /\ Route(Pathname(r.url)) = "health"
        /\ handleHealth(r.method, r.url)
        /\ Emitted(r)

PatchedSSERequest ==
    \E r \in PatchedRequests :
        /\ Accept
        /\ UrlParses(r.url)
        /\ Route(Pathname(r.url)) = "sse"
        /\ \E q \in IF r.method = "POST" THEN {Absent, Empty} \cup KnownIds
                                        ELSE {Absent} :
               handleSSE(r.method, r.url, q)
        /\ Emitted(r)

PatchedStreamableRequest ==
    \E r \in PatchedRequests :
        /\ Accept
        /\ UrlParses(r.url)
        /\ Route(Pathname(r.url)) = "streamable"
        /\ \E h \in {Absent, Empty} \cup KnownIds :
               handleStreamable(r.method, r.url, h)
        /\ Emitted(r)

\* the transport that was given the response answers through it
\* (handlePostMessage, handleRequest, or the start of the event stream)
TransportResponds ==
    /\ listening
    /\ resHolder # NoTransport
    /\ ~(/\ transports[resHolder].via = "eager"
         /\ transports[resHolder].connect # "ok")
    /\ \E rs \in {ResEnd(ResWriteHead(res, 200), "sdk"),
                  ResEnd(ResWriteHead(res, 400), "sdk"),
                  ResWrite(ResWriteHead(res, 200), "sdk")} : res' = rs
    /\ resHolder' = NoTransport
    /\ last' = Event("transport_responds", "", <<>>,
                     transports[resHolder].sessionId, 0, resHolder)
    /\ UNCHANGED <<sseSessions, streamableSessions, transports, uuidCount,
                   listening, reqIn, uploadVars>>

\* the server with the patch loaded before it starts
PatchedNext ==
    \/ Start
    \/ StdioConnectSettled
    \/ PatchedBadUrlRequest
    \/ PatchedHealthRequest
    \/ PatchedSSERequest
    \/ PatchedStreamableRequest
    \/ TransportResponds
    \/ SSEConnectDone
    \/ SSEConnectFail
    \/ ResClose
    \/ EagerConnectDone
    \/ EagerConnectFail
    \/ OnSessionInitialized
    \/ InitConnectDone
    \/ InitConnectFail
    \/ TransportClose

PatchedSpec == Init /\ [][PatchedNext]_vars

(* ---------------------------- browser_file_upload ---------------------- *)
\* S3 keys: two with the same last segment, one that ends in a slash
KeyAF == <<"a", "/", "f">>
KeyBF == <<"b", "/", "f">>
KeyDir == <<"d", "/">>
Keys == {KeyAF, KeyBF, KeyDir}

\* params.s3Keys
KeyLists == UNION {[1..n -> Keys] : n \in 0..MaxKeys}

\* s3Key.split('/').pop()
LastSegment(k) ==
    IF \E i \in 1..Len(k) : k[i] = "/"
      THEN LET i == CHOOSE i \in 1..Len(k) :
                        k[i] = "/" /\ \A j \in (i + 1)..Len(k) : k[j] # "/"
           IN  SubSeq(k, i + 1, Len(k))
      ELSE k

\* s3Key.split('/').pop() || s3Key
FileName(k) == IF LastSegment(k) = <<>> THEN k ELSE LastSegment(k)

\* join(tmpdir(), `playwright-upload-${Date.now()}-${fileName}`)
LocalPath(t, k) == <<t, FileName(k)>>

\* the path names an entry of a directory that does not exist
InMissingDirectory(path) == \E i \in 1..Len(path[2]) : path[2][i] = "/"

\* Date.now() after an await: the clock has advanced or it has not
Ticks == {t \in now..(now + 1) : t <= MaxClock}

\* unlinkSync(path) inside its try/catch: a missing file throws, is caught
unlinkSync(d, path) == [p \in DOMAIN d \ {path} |-> d[p]]

\* for (const localPath of localPaths) unlinkSync(localPath)
RECURSIVE Cleanup(_, _)
Cleanup(paths, d) ==
    IF paths = <<>> THEN d
    ELSE Cleanup(Tail(paths), unlinkSync(d, Head(paths)))

\* the catch block: clean up, rethrow the error
Catch(cause) ==
    /\ disk' = Cleanup(upload.localPaths, disk)
    /\ upload' = [upload EXCEPT !.pc = "thrown", !.failed = cause,
                                !.error = cause]
    /\ UNCHANGED tempFilePaths

\* handle up to the loop: the file chooser and the environment are checked
handle ==
    \E keys \in KeyLists, chooser \in BOOLEAN, env \in BOOLEAN :
        /\ upload.pc \in {"idle", "done", "thrown"}
        /\ upload.calls < MaxCalls
        /\ upload' =
             [pc |-> IF chooser /\ env THEN "fetching" ELSE "thrown",
              s3Keys |-> keys,
              localPaths |-> <<>>,
              failed |-> IF ~chooser THEN "chooser"
                         ELSE IF ~env THEN "env" ELSE "",
              error |-> IF ~chooser THEN "chooser"
                        ELSE IF ~env THEN "env" ELSE "",
              before |-> tempFilePaths,
              calls |-> upload.calls + 1]
        /\ UNCHANGED <<disk, tempFilePaths, now, routerVars, patchVars>>

\* the loop has a key left to fetch
Fetching ==
    /\ upload.pc = "fetching"
    /\ Len(upload.localPaths) < Len(upload.s3Keys)

\* one iteration fails before the file is written: the S3 request rejects,
\* the object has no body, or reading the body fails
FetchFails ==
    \E cause \in {"send", "body", "chunks"}, t \in Ticks :
        /\ Fetching
        /\ now' = t
        /\ Catch(cause)
        /\ UNCHANGED <<routerVars, patchVars>>

\* one iteration gets the object and writes it to its path
FetchWrites ==
    \E t \in Ticks :
        /\ Fetching
        /\ now' = t
        /\ LET s3Key == upload.s3Keys[Len(upload.localPaths) + 1]
               localPath == LocalPath(t, s3Key)
           IN  IF InMissingDirectory(localPath)
                 THEN Catch("write")
                 ELSE /\ disk' = [p \in DOMAIN disk \cup {localPath} |->
                                     IF p = localPath THEN s3Key ELSE disk[p]]
                      /\ upload' = [upload EXCEPT
                                       !.localPaths = Append(@, localPath)]
                      /\ UNCHANGED tempFilePaths
        /\ UNCHANGED <<routerVars, patchVars>>

\* after the loop: setFiles resolves, the paths are kept on the tab
SetFilesDone ==
    /\ upload.pc = "fetching"
    /\ Len(upload.localPaths) = Len(upload.s3Keys)
    /\ tempFilePaths' = tempFilePaths \o upload.localPaths
    /\ upload' = [upload EXCEPT !.pc = "done"]
    /\ UNCHANGED <<disk, now, routerVars, patchVars>>

\* after the loop: setFiles rejects
SetFilesFails ==
    /\ upload.pc = "fetching"
    /\ Len(upload.localPaths) = Len(upload.s3Keys)
    /\ Catch("setFiles")
    /\ UNCHANGED <<now, routerVars, patchVars>>

UploadNext ==
    \/ handle
    \/ FetchFails
    \/ FetchWrites
    \/ SetFilesDone
    \/ SetFilesFails

UploadSpec == Init /\ [][UploadNext]_vars

(* ---------------------------- vocabulary ------------------------------- *)
Streamable(t) == transports[t].kind = "streamable"
Legacy(t) == transports[t].kind = "sse"

\* a session in being: its connection is open and its engine connect has
\* been started and has not failed
Live(t) ==
    transports[t].open /\ transports[t].connect \in {"pending", "ok"}

\* the transports a registry holds
Registered(m) == {m[k] : k \in DOMAIN m}

ConnectFailures ==
    {"sse_connect_failed", "eager_connect_failed", "init_connect_failed"}

(* ---------------------------- C1 --------------------------------------- *)
\* C1: a streamable request whose mcp-session-id is not registered creates a
\* transport with the header value as its id, initialized, with connect
\* called; when the connect resolves the transport is stored under that id
\* and the request forwarded to it; and from then on the id keeps naming
\* that same transport for as long as the transport stays open.
C1_EagerSessionAddressing ==
    [][ /\ last'.ev = "eager_start" =>
             /\ last'.to = Len(transports) + 1
             /\ transports'[last'.to].sessionId = last'.sid
             /\ transports'[last'.to].initialized
             /\ transports'[last'.to].connects = 1
        /\ last'.ev = "eager_forward" =>
             /\ MapGet(streamableSessions', last'.sid) = last'.to
             /\ transports'[last'.to].sessionId = last'.sid
        /\ \A h \in DOMAIN streamableSessions :
             transports'[streamableSessions[h]].open =>
                 MapGet(streamableSessions', h) = streamableSessions[h]
      ]_vars

(* ---------------------------- C2 --------------------------------------- *)
\* C2: at most one live session, and so one engine connect in effect, per
\* streamable session id, under every interleaving of requests.
C2_OneLiveSessionPerId ==
    \A t1, t2 \in TransportIds :
        ( /\ Streamable(t1) /\ Streamable(t2)
          /\ Live(t1) /\ Live(t2)
          /\ Truthy(transports[t1].sessionId)
          /\ transports[t1].sessionId = transports[t2].sessionId )
        => t1 = t2

(* ---------------------------- C3 --------------------------------------- *)
\* C3: the id generated for a no-header POST is in the streamable registry
\* only once the callback's connect has completed: while the transport is
\* uninitialized, or its connect is pending or has failed, neither the
\* transport nor its id is registered.
C3_StoredOnlyAfterConnect ==
    \A t \in TransportIds :
        (transports[t].via = "init" /\ transports[t].connect # "ok") =>
            /\ t \notin Registered(streamableSessions)
            /\ ~MapHas(streamableSessions, transports[t].sessionId)

\* a no-header session whose connect is pending, beside a registered session
C3_Witness ==
    \E t \in TransportIds :
        /\ transports[t].via = "init"
        /\ transports[t].connect = "pending"
        /\ Truthy(transports[t].sessionId)
        /\ MapSize(streamableSessions) >= 1

(* ---------------------------- C4 --------------------------------------- *)
\* C4: no session whose connection has closed is in a registry.
C4_ClosedSessionAbsent ==
    \A t \in TransportIds :
        ~transports[t].open =>
            /\ t \notin Registered(sseSessions)
            /\ t \notin Registered(streamableSessions)

\* a legacy session whose connection closed while its connect was pending
\* or after its connect failed, still registered
C4_Leak ==
    \E t \in TransportIds :
        Legacy(t) /\ ~transports[t].open /\ t \in Registered(sseSessions)

(* ---------------------------- C5 --------------------------------------- *)
\* C5: a GET on a legacy-prefix path adds exactly one entry to the legacy
\* registry, for a new transport under an id registered nowhere before,
\* keeps every existing legacy entry, and calls connect once for the new
\* transport; no legacy transport is ever connected more than once.
C5_GetRegistersOneFreshSession ==
    [][ /\ last'.ev = "sse_get" =>
             /\ last'.method = "GET"
             /\ StartsWith(last'.path, UrlSse)
             /\ ~MapHas(sseSessions, last'.sid)
             /\ ~MapHas(streamableSessions, last'.sid)
             /\ DOMAIN sseSessions' = DOMAIN sseSessions \cup {last'.sid}
             /\ \A k \in DOMAIN sseSessions : sseSessions'[k] = sseSessions[k]
             /\ sseSessions'[last'.sid] = Len(transports) + 1
             /\ Len(transports') = Len(transports) + 1
             /\ transports'[Len(transports')].sessionId = last'.sid
             /\ transports'[Len(transports')].connects = 1
        /\ \A t \in 1..Len(transports') :
             transports'[t].kind = "sse" => transports'[t].connects = 1
      ]_vars

\* a GET on /ssex has just registered a second legacy session
C5_Witness ==
    /\ last.ev = "sse_get"
    /\ last.path = UrlSsex
    /\ MapSize(sseSessions) >= 2

(* ---------------------------- C6 --------------------------------------- *)
\* C6: a legacy POST without a sessionId gets 400, one naming no legacy
\* session gets 404, both without forwarding; any other is forwarded to the
\* transport registered under that id; no POST changes a registry.
C6_LegacyPostDelivery ==
    [][ last'.ev = "sse_post" =>
          /\ last'.method = "POST"
          /\ ~Truthy(last'.sid) =>
                 (last'.status = 400 /\ last'.to = NoTransport)
          /\ (Truthy(last'.sid) /\ ~MapHas(sseSessions, last'.sid)) =>
                 (last'.status = 404 /\ last'.to = NoTransport)
          /\ MapHas(sseSessions, last'.sid) =>
                 (last'.to = sseSessions[last'.sid] /\ last'.status = 0)
          /\ sseSessions' = sseSessions
          /\ streamableSessions' = streamableSessions
          /\ transports' = transports
      ]_vars

\* a POST was forwarded to one of two registered legacy sessions
C6_Witness ==
    /\ last.ev = "sse_post"
    /\ last.to # NoTransport
    /\ MapSize(sseSessions) >= 2

\* a POST without sessionId was answered 400
C6_Witness400 == last.ev = "sse_post" /\ last.status = 400

\* a POST naming an id that only the streamable registry holds got 404
C6_Witness404 ==
    /\ last.ev = "sse_post"
    /\ last.status = 404
    /\ MapHas(streamableSessions, last.sid)

(* ---------------------------- C7 --------------------------------------- *)
\* C7: a streamable request whose header names a registered session is
\* forwarded to the registered transport; the step creates no transport,
\* calls no connect and leaves both registries as they were.
C7_PassThroughFrame ==
    [][ last'.ev = "passthrough" =>
          /\ MapHas(streamableSessions, last'.sid)
          /\ last'.to = streamableSessions[last'.sid]
          /\ transports' = transports
          /\ streamableSessions' = streamableSessions
          /\ sseSessions' = sseSessions
      ]_vars

\* a request passed through to a session made by a no-header POST, while a
\* session made by eager creation is registered too
C7_Witness ==
    /\ last.ev = "passthrough"
    /\ transports[last.to].via = "init"
    /\ \E t \in Registered(streamableSessions) : transports[t].via = "eager"

\* a request passed through to a session made by eager creation
C7_WitnessEager ==
    /\ last.ev = "passthrough"
    /\ transports[last.to].via = "eager"

(* ---------------------------- C8 --------------------------------------- *)
\* C8: when connect fails for a session being established, the listener
\* keeps accepting and no registry entry is added, removed or replaced.
C8_ConnectFailureConfined ==
    [][ last'.ev \in ConnectFailures =>
          /\ listening'
          /\ sseSessions' = sseSessions
          /\ streamableSessions' = streamableSessions
      ]_vars

(* ---------------------------- C9 --------------------------------------- *)
RequestEvents ==
    {"health", "sse_post", "sse_get", "sse_other", "passthrough",
     "eager_start", "init_post", "invalid"}

\* the handler a step belongs to
Handler(ev) ==
    IF ev = "health" THEN "health"
    ELSE IF ev \in {"sse_post", "sse_get", "sse_other"} THEN "sse"
    ELSE "streamable"

\* C9: the handler that serves a request is fixed by the path: /health
\* exactly is the health reporter, any other path beginning with /sse the
\* legacy adapter, every other path the streamable adapter, in every state.
C9_RoutedByPathAlone ==
    last.ev \in RequestEvents =>
        /\ Len(last.path) > 0
        /\ last.path = UrlHealth => Handler(last.ev) = "health"
        /\ (last.path # UrlHealth /\ Len(last.path) >= 4
              /\ SubSeq(last.path, 1, 4) = UrlSse) => Handler(last.ev) = "sse"
        /\ (last.path # UrlHealth
              /\ ~(Len(last.path) >= 4 /\ SubSeq(last.path, 1, 4) = UrlSse))
                 => Handler(last.ev) = "streamable"

\* /ssex went to the legacy adapter while sessions were registered
C9_Witness ==
    /\ last.ev = "sse_get"
    /\ last.path = UrlSsex
    /\ MapSize(sseSessions) >= 2

\* /healthz went to the streamable adapter
C9_WitnessDefault == last.ev \in RequestEvents /\ last.path = UrlHealthz

(* ---------------------------- C10 -------------------------------------- *)
\* C10: a request to /health, whatever its method, leaves both registries
\* and every transport as they were: no entry changes, no connect is made.
C10_HealthFrame ==
    [][ last'.ev = "health" =>
          /\ last'.path = UrlHealth
          /\ sseSessions' = sseSessions
          /\ streamableSessions' = streamableSessions
          /\ transports' = transports
      ]_vars

\* a non-GET /health request was served while both registries held sessions
C10_Witness ==
    /\ last.ev = "health"
    /\ last.method # "GET"
    /\ MapSize(sseSessions) >= 1
    /\ MapSize(streamableSessions) >= 1

(* ---------------------------- C11 -------------------------------------- *)
\* the sessions of a registry whose connection is open
OpenIn(m) == {t \in Registered(m) : transports[t].open}

\* C11: GET /health answers 200 and reports, for each registry, the number
\* of its sessions that are open, and their sum.
C11_HealthCountsOpenSessions ==
    [][ (last'.ev = "health" /\ last'.method = "GET") =>
          /\ last'.status = 200
          /\ last'.counts =
                 <<Cardinality(OpenIn(sseSessions)),
                   Cardinality(OpenIn(streamableSessions)),
                   Cardinality(OpenIn(sseSessions))
                       + Cardinality(OpenIn(streamableSessions))>>
      ]_vars

(* ---------------------------- C12 -------------------------------------- *)
\* C12: a request that supplies a session id its registry does not hold (a
\* legacy POST's sessionId, a streamable request's mcp-session-id) gets 404,
\* is forwarded nowhere, and changes neither registry nor any transport.
C12_UnknownSessionIs404 ==
    [][ ( \/ /\ last'.ev = "sse_post"
             /\ Truthy(last'.sid)
             /\ ~MapHas(sseSessions, last'.sid)
          \/ /\ last'.ev \in {"passthrough", "eager_start"}
             /\ ~MapHas(streamableSessions, last'.sid) ) =>
          /\ last'.status = 404
          /\ last'.to = NoTransport
          /\ sseSessions' = sseSessions
          /\ streamableSessions' = streamableSessions
          /\ transports' = transports
      ]_vars

\* C12 as amended: a legacy POST naming an id the legacy registry does not
\* hold gets 404, is forwarded nowhere and changes nothing; a streamable
\* request naming an id the streamable registry does not hold gets no 404:
\* a transport is created for that id and its connect started, and neither
\* registry changes in that step.
C12_UnknownLegacyIs404 ==
    [][ /\ ( /\ last'.ev = "sse_post"
             /\ Truthy(last'.sid)
             /\ ~MapHas(sseSessions, last'.sid) ) =>
               /\ last'.status = 404
               /\ last'.to = NoTransport
               /\ sseSessions' = sseSessions
               /\ streamableSessions' = streamableSessions
               /\ transports' = transports
        /\ ( /\ last'.ev \in {"passthrough", "eager_start"}
             /\ ~MapHas(streamableSessions, last'.sid) ) =>
               /\ last'.ev = "eager_start"
               /\ last'.status # 404
               /\ last'.to = Len(transports) + 1
               /\ Len(transports') = Len(transports) + 1
               /\ transports'[last'.to].sessionId = last'.sid
               /\ transports'[last'.to].connect = "pending"
               /\ sseSessions' = sseSessions
               /\ streamableSessions' = streamableSessions
      ]_vars

\* a legacy POST got 404 for an id that a registered streamable session has,
\* while a legacy session is registered under another id
C12_Witness ==
    /\ last.ev = "sse_post"
    /\ last.status = 404
    /\ MapHas(streamableSessions, last.sid)
    /\ MapSize(sseSessions) >= 1

(* ---------------------------- C13 -------------------------------------- *)
\* C13: a non-GET request to /health gets 405 with Allow: GET, a request to
\* a legacy-prefix path with a method other than GET and POST gets 405, and
\* neither changes a registry or a transport (no connect is made).
C13_UnsupportedMethodIs405 ==
    [][ ( \/ last'.ev = "health" /\ last'.method # "GET"
          \/ /\ last'.ev \in {"sse_post", "sse_get", "sse_other"}
             /\ last'.method \notin {"GET", "POST"} ) =>
          /\ last'.status = 405
          /\ last'.to = NoTransport
          /\ last'.ev = "health" => last'.allow = "GET"
          /\ sseSessions' = sseSessions
          /\ streamableSessions' = streamableSessions
          /\ transports' = transports
      ]_vars

\* a DELETE on a legacy path got 405 while both registries held sessions
C13_Witness ==
    /\ last.ev = "sse_other"
    /\ last.method = "DELETE"
    /\ last.status = 405
    /\ MapSize(sseSessions) >= 1
    /\ MapSize(streamableSessions) >= 1

\* a POST on /health got 405 with Allow: GET
C13_WitnessHealth ==
    /\ last.ev = "health"
    /\ last.method = "POST"
    /\ last.status = 405
    /\ last.allow = "GET"

(* ---------------------------- C14 -------------------------------------- *)
\* C14: a streamable request without a session id header whose method is
\* not POST gets 400, creates no transport, makes no connect and leaves the
\* registries as they were.
C14_NoHeaderNonPostIs400 ==
    [][ ( /\ last'.ev \in {"init_post", "invalid"}
          /\ last'.method # "POST" ) =>
          /\ ~Truthy(last'.sid)
          /\ last'.ev = "invalid"
          /\ last'.status = 400
          /\ last'.to = NoTransport
          /\ transports' = transports
          /\ streamableSessions' = streamableSessions
          /\ sseSessions' = sseSessions
      ]_vars

\* a GET without header got 400 while a streamable session was registered
C14_Witness ==
    /\ last.ev = "invalid"
    /\ last.method = "GET"
    /\ last.sid = Absent
    /\ last.status = 400
    /\ MapSize(streamableSessions) >= 1

(* ---------------------------- C15 -------------------------------------- *)
\* C15: every connect carries the flag of its transport kind, false for a
\* legacy or stdio transport and true for a streamable one; and once start
\* has taken the stdio branch there is one transport, the stdio one, with
\* one connect, no listener and no session in either registry.
C15_StatelessFlagByKind ==
    /\ \A t \in TransportIds :
         transports[t].connects >= 1 =>
             (transports[t].stateless <=> transports[t].kind = "streamable")
    /\ \A t \in TransportIds :
         transports[t].kind = "stdio" =>
             /\ Len(transports) = 1
             /\ transports[t].connects = 1
             /\ ~listening
             /\ sseSessions = EmptyMap
             /\ streamableSessions = EmptyMap

\* a legacy session and a no-header streamable session, both connected once
C15_Witness ==
    \E t1, t2 \in TransportIds :
        /\ transports[t1].via = "get" /\ transports[t1].connects = 1
        /\ ~transports[t1].stateless
        /\ transports[t2].via = "init" /\ transports[t2].connects = 1
        /\ transports[t2].stateless

\* the stdio transport, connected, in a process without a listener
C15_WitnessStdio ==
    \E t \in TransportIds :
        /\ transports[t].kind = "stdio"
        /\ transports[t].connect = "ok"
        /\ ~transports[t].stateless

\* an eagerly created session, connected once in stateless mode
C15_WitnessEager ==
    \E t \in TransportIds :
        /\ transports[t].via = "eager"
        /\ transports[t].connect = "ok"
        /\ transports[t].stateless

(* ---------------------------- C16 -------------------------------------- *)
LegacySteps ==
    {"sse_post", "sse_get", "sse_other", "sse_connected",
     "sse_connect_failed", "res_close"}

StreamableSteps ==
    {"passthrough", "eager_start", "init_post", "invalid", "eager_forward",
     "eager_connect_failed", "init_callback", "init_stored",
     "init_connect_failed", "transport_close"}

\* C16: no legacy step changes the streamable registry, no streamable step
\* the legacy registry; each registry holds only transports of its own
\* kind, and a lookup returns only what its own registry holds under the
\* id, whatever the other registry holds under the same id.
C16_RegistriesDisjoint ==
    [][ /\ last'.ev \in LegacySteps =>
             streamableSessions' = streamableSessions
        /\ last'.ev \in StreamableSteps => sseSessions' = sseSessions
        /\ \A t \in Registered(sseSessions') : transports'[t].kind = "sse"
        /\ \A t \in Registered(streamableSessions') :
             transports'[t].kind = "streamable"
        /\ last'.ev = "sse_post" =>
             last'.to = MapGet(sseSessions, last'.sid)
        /\ last'.ev = "passthrough" =>
             last'.to = MapGet(streamableSessions, last'.sid)
        /\ last'.ev = "eager_start" => ~MapHas(streamableSessions, last'.sid)
      ]_vars

\* one id registered in both registries for two different transports, and a
\* legacy POST with that id forwarded to the legacy one
C16_Witness ==
    /\ last.ev = "sse_post"
    /\ MapHas(sseSessions, last.sid)
    /\ MapHas(streamableSessions, last.sid)
    /\ last.to = sseSessions[last.sid]
    /\ streamableSessions[last.sid] # sseSessions[last.sid]

\* an id of a live legacy session was unknown to the streamable adapter,
\* which created a session of its own for it
C16_WitnessEager ==
    /\ last.ev = "eager_start"
    /\ MapHas(sseSessions, last.sid)

(* ---------------------------- C17 -------------------------------------- *)
\* the steps at which a handler hands the request to a transport, which
\* then writes the response
Forwards == {"sse_post", "passthrough", "eager_forward", "init_post"}

\* the steps that end the listener's work on a request, by a response of
\* its own, by handing the request to a transport, or by a rejection
Completions ==
    {"health", "sse_post", "sse_other", "invalid", "passthrough",
     "sse_connected", "eager_forward", "init_post", "reject_url",
     "sse_connect_failed", "eager_connect_failed"}

\* responses a request has got when the listener is done with it
Responses(e) ==
    (IF e.status # 0 THEN 1 ELSE 0)
        + (IF e.ev \in Forwards /\ e.to # NoTransport THEN 1 ELSE 0)

\* C17: every request gets exactly one response, on failure paths too.
C17_OneResponsePerRequest ==
    last.ev \in Completions => Responses(last) = 1

\* the same for the requests the listener does not reject
C17_OneResponseUnlessRejected ==
    (last.ev \in Completions
        /\ last.ev \notin {"reject_url", "sse_connect_failed",
                           "eager_connect_failed"}) => Responses(last) = 1

(* ---------------------------- C18 -------------------------------------- *)
\* C18: a request whose URL does not parse is handled by the streamable
\* adapter.
C18_UnparseableUrlGoesToStreamable ==
    (last.ev \in RequestEvents \cup {"reject_url"} /\ ~UrlParses(last.path))
        => (last.ev \in RequestEvents /\ Handler(last.ev) = "streamable")

(* ---------------------------- C19 -------------------------------------- *)
\* C19: a registry entry stays as it is for as long as the connection of
\* the transport it holds is open: whatever the step, an entry whose
\* transport is still open afterwards is still there, for that transport.
C19_RegisteredUntilOwnClose ==
    [][ /\ \A k \in DOMAIN sseSessions :
             transports'[sseSessions[k]].open =>
                 MapGet(sseSessions', k) = sseSessions[k]
        /\ \A k \in DOMAIN streamableSessions :
             transports'[streamableSessions[k]].open =>
                 MapGet(streamableSessions', k) = streamableSessions[k]
      ]_vars

\* the same for the legacy registry alone
C19_LegacyRegisteredUntilOwnClose ==
    [][ \A k \in DOMAIN sseSessions :
          transports'[sseSessions[k]].open =>
              MapGet(sseSessions', k) = sseSessions[k]
      ]_vars

\* the close of a replaced transport has removed the entry of the open
\* transport that replaced it
C19_RemovedByOtherClose ==
    /\ last.ev = "transport_close"
    /\ \E t \in TransportIds :
         /\ t # last.to
         /\ Streamable(t)
         /\ transports[t].open
         /\ transports[t].connect = "ok"
         /\ transports[t].sessionId = last.sid
         /\ ~MapHas(streamableSessions, last.sid)

(* ---------------------------- C20 -------------------------------------- *)
\* C20: in both registries every registered session is one whose connect
\* has completed successfully.
C20_RegisteredMeansConnected ==
    \A t \in Registered(sseSessions) \cup Registered(streamableSessions) :
        transports[t].connect = "ok"

\* C20 as amended: in the streamable registry every registered session is
\* one whose connect has completed successfully; a legacy session is in its
\* registry from the moment its connect is started, whatever becomes of the
\* connect, for as long as its connection is open.
C20_StreamableRegisteredMeansConnected ==
    /\ \A t \in Registered(streamableSessions) :
         transports[t].connect = "ok"
    /\ \A t \in TransportIds :
         (Legacy(t) /\ transports[t].open) =>
             /\ t \in Registered(sseSessions)
             /\ transports[t].connects = 1

\* a connected streamable session registered beside a legacy session that
\* is registered while its connect is pending
C20_Witness ==
    /\ \E t \in Registered(streamableSessions) : transports[t].connect = "ok"
    /\ \E t \in Registered(sseSessions) :
         transports[t].connect = "pending" /\ transports[t].open

\* a legacy POST forwarded to a session whose connect has failed
C20_WitnessFailed ==
    /\ last.ev = "sse_post"
    /\ last.to # NoTransport
    /\ transports[last.to].connect = "failed"

\* a request the patch answers: GET with the path /health or /healthcheck
HealthCheck(r) ==
    /\ r.method = "GET"
    /\ UrlParses(r.url)
    /\ Pathname(r.url) \in {UrlHealth, UrlHealthcheck}

PatchResponse == [status |-> 200, body |-> <<"patch">>, complete |-> TRUE]

\* C21: on the patched server the client of a GET to /health or
\* /healthcheck receives the complete 200 response with the patch's body,
\* at the end of the step that calls the listeners and after every later
\* step, whatever the router's handler and the transport it hands the
\* request to do with the response object; for a request with any other
\* path or method the response after the listeners have run is exactly what
\* the router's handler makes of a fresh response, and none of its methods
\* has been replaced.
C21_PatchAnswersHealthChecks ==
    [][/\ HealthCheck(reqIn') => Received(res') = PatchResponse
       /\ (/\ last'.ev \in RequestEvents \cup {"reject_url"}
           /\ ~HealthCheck(reqIn'))
             => /\ res' = RouterWrites(NewRes, last')
                /\ res'.stubs = {}]_vars

\* GET /healthcheck without a session header: the router's streamable
\* handler has set its 400 on the response the patch has already ended
C21_Witness ==
    /\ reqIn = [method |-> "GET", url |-> UrlHealthcheck]
    /\ last.ev = "invalid"
    /\ res.statusCode = 400
    /\ Received(res) = PatchResponse

\* GET /healthcheck with an unregistered session id: the transport created
\* for it has been given the response after the await and has answered
C21_WitnessTransport ==
    /\ reqIn = [method |-> "GET", url |-> UrlHealthcheck]
    /\ last.ev = "transport_responds"
    /\ transports[last.to].via = "eager"

\* GET /health: the router's health handler has run after the patch
C21_WitnessHealth ==
    /\ reqIn = [method |-> "GET", url |-> UrlHealth]
    /\ last.ev = "health"
    /\ last.status = 200

\* POST /health: the router's 405 is what the client receives
C21_WitnessUntouched ==
    /\ reqIn = [method |-> "POST", url |-> UrlHealth]
    /\ Received(res) = [status |-> 405, body |-> <<"text">>, complete |-> TRUE]

\* the steps of the handler that come after it has started fetching
FetchSteps == {"send", "body", "chunks", "write", "setFiles"}

\* the handler threw at or after its first fetch: nothing it wrote is left,
\* what it threw is the error of the step that failed, the tab's list is as
\* it was when the handler was entered
FailureCleansUp ==
    (upload.pc = "thrown" /\ upload.failed \in FetchSteps) =>
        /\ \A i \in 1..Len(upload.localPaths) :
             upload.localPaths[i] \notin DOMAIN disk
        /\ upload.error = upload.failed
        /\ tempFilePaths = upload.before

\* the handler returned: each requested key has its own file on disk, with
\* that key's object in it, and the tab's list has grown by these paths
SuccessKeepsOnePerKey ==
    upload.pc = "done" =>
        /\ Len(upload.localPaths) = Len(upload.s3Keys)
        /\ \A i \in 1..Len(upload.localPaths) :
             /\ upload.localPaths[i] \in DOMAIN disk
             /\ disk[upload.localPaths[i]] = upload.s3Keys[i]
        /\ \A i, j \in 1..Len(upload.localPaths) :
             i # j => upload.localPaths[i] # upload.localPaths[j]
        /\ tempFilePaths = upload.before \o upload.localPaths

\* C22: when browser_file_upload fails at a step after it has started
\* fetching, every temporary file written by that invocation is deleted,
\* the original error is rethrown and the tab's retained list gets no path
\* of that invocation; when it succeeds, one temporary file per requested
\* key is on disk and all their paths are appended to the list.
C22_UploadCleansUpOrKeeps == FailureCleansUp /\ SuccessKeepsOnePerKey

\* the failure half of C22 alone
C22_FailureLeavesNothing ==
    /\ FailureCleansUp
    /\ upload.pc = "done" =>
         tempFilePaths = upload.before \o upload.localPaths

\* a failed invocation that had written a file
C22_WitnessFailure ==
    /\ upload.pc = "thrown"
    /\ upload.failed = "setFiles"
    /\ Len(upload.localPaths) = 2

\* a successful invocation for two different keys that has one file on disk
C22_OneFileForTwoKeys ==
    /\ upload.pc = "done"
    /\ Len(upload.s3Keys) = 2
    /\ upload.s3Keys[1] # upload.s3Keys[2]
    /\ upload.localPaths[1] = upload.localPaths[2]
=============================================================================
